---- MODULE Spec2Model ----
(***************************************************************************)
(* Model of the backup scripts archive-database-backup.py (archive run)    *)
(* and mongodump-to-s3.py (upload-then-prune run) working on one S3        *)
(* bucket.  Keys are sequences of one-character strings, so that the       *)
(* regular expressions (re.match, re.sub) and the strftime / strptime      *)
(* conversions are computed character by character as the code does.       *)
(***************************************************************************)
EXTENDS Integers, Sequences, FiniteSets, TLC

(***************************************************************************)
(* Bounds of the model.                                                    *)
(***************************************************************************)
MaxObjects == 2   \* objects in the bucket before the first run
MaxProcs   == 2   \* script processes that can exist at once
MaxBackups == 2   \* largest --max-backups value tried

(***************************************************************************)
(* Characters.  Chars lists the alphabet in ASCII order, which is the      *)
(* order S3 lists keys in.                                                 *)
(***************************************************************************)
Chars == << "-", ".", "/", "0", "1", "2", "3", "4", "5", "6", "7", "8", "9",
            "_", "d", "e", "g", "n", "o", "s", "t", "x", "z" >>

CharSet == { Chars[i] : i \in 1..Len(Chars) }

OrdOf == [c \in CharSet |-> CHOOSE i \in 1..Len(Chars) : Chars[i] = c]

Ord(c) == OrdOf[c]

Digits == << "0", "1", "2", "3", "4", "5", "6", "7", "8", "9" >>

IsDigit(c) == \E i \in 1..10 : Digits[i] = c

DigitVal(c) == (CHOOSE i \in 1..10 : Digits[i] = c) - 1

At(s, i) == IF i >= 1 /\ i <= Len(s) THEN s[i] ELSE ""

StartsWith(s, p) == Len(s) >= Len(p) /\ \A i \in 1..Len(p) : s[i] = p[i]

\* str.rstrip('/')
RECURSIVE RStripSlash(_)
RStripSlash(s) ==
    IF Len(s) > 0 /\ s[Len(s)] = "/" THEN RStripSlash(SubSeq(s, 1, Len(s) - 1))
    ELSE s

\* str.lstrip('/')
RECURSIVE LStripSlash(_)
LStripSlash(s) ==
    IF Len(s) > 0 /\ s[1] = "/" THEN LStripSlash(Tail(s))
    ELSE s

\* os.path.join(a, b) for a relative b
PathJoin(a, b) ==
    IF Len(a) = 0 \/ a[Len(a)] = "/" THEN a \o b ELSE a \o << "/" >> \o b

\* byte-wise comparison of two keys
RECURSIVE LexLessFrom(_, _, _)
LexLessFrom(a, b, i) ==
    IF i > Len(b) THEN FALSE
    ELSE IF i > Len(a) THEN TRUE
    ELSE IF a[i] = b[i] THEN LexLessFrom(a, b, i + 1)
    ELSE Ord(a[i]) < Ord(b[i])

LexLess(a, b) == LexLessFrom(a, b, 1)

(***************************************************************************)
(* Dates.  A datetime is a record of its six fields.                       *)
(***************************************************************************)
DT(Y, m, d, H, M, S) == [Y |-> Y, m |-> m, d |-> d, H |-> H, M |-> M, S |-> S]

IsLeap(Y) == (Y % 4 = 0 /\ Y % 100 # 0) \/ Y % 400 = 0

DaysInMonth(Y, m) ==
    IF m = 2 THEN (IF IsLeap(Y) THEN 29 ELSE 28)
    ELSE IF m \in {4, 6, 9, 11} THEN 30 ELSE 31

\* the order of datetime values
DateLess(a, b) ==
    LET ta == << a.Y, a.m, a.d, a.H, a.M, a.S >>
        tb == << b.Y, b.m, b.d, b.H, b.M, b.S >>
    IN  \E i \in 1..6 : ta[i] < tb[i] /\ \A j \in 1..(i - 1) : ta[j] = tb[j]

Pad2(n) == << Digits[((n \div 10) % 10) + 1], Digits[(n % 10) + 1] >>

Pad4(n) == Pad2(n \div 100) \o Pad2(n % 100)

\* now.strftime(BACKUP_FILENAME_FORMAT)
BACKUP_FILENAME_FORMAT(t) ==
    Pad4(t.Y) \o << "-" >> \o Pad2(t.m) \o << "-" >> \o Pad2(t.d) \o << "_" >>
    \o Pad2(t.H) \o << "-" >> \o Pad2(t.M) \o << "-" >> \o Pad2(t.S)
    \o << ".", "g", "z" >>

NotMatched == [Y |-> -1]

(***************************************************************************)
(* datetime.strptime(key, prefix + '%Y-%m-%d_%H-%M-%S.gz').  The format    *)
(* text is matched literally, %Y is four digits, the other fields are one  *)
(* or two digits within the field's range, the whole key must be consumed  *)
(* and the fields must make a calendar date; anything else is ValueError,  *)
(* modelled as NotMatched.                                                 *)
(***************************************************************************)
NumField(s, i) ==
    IF ~IsDigit(At(s, i)) THEN [w |-> 0, v |-> 0]
    ELSE IF IsDigit(At(s, i + 1))
         THEN [w |-> 2, v |-> 10 * DigitVal(s[i]) + DigitVal(s[i + 1])]
         ELSE [w |-> 1, v |-> DigitVal(s[i])]

StrpTime(key, fmtPrefix) ==
    LET p  == Len(fmtPrefix)
        fm == NumField(key, p + 6)
        im == p + 6 + fm.w
        fd == NumField(key, im + 1)
        id == im + 1 + fd.w
        fH == NumField(key, id + 1)
        iH == id + 1 + fH.w
        fM == NumField(key, iH + 1)
        iM == iH + 1 + fM.w
        fS == NumField(key, iM + 1)
        iS == iM + 1 + fS.w
    IN  IF /\ StartsWith(key, fmtPrefix)
           /\ \A k \in 1..4 : IsDigit(At(key, p + k))
           /\ At(key, p + 5) = "-"
           /\ fm.w > 0 /\ fm.v \in 1..12
           /\ At(key, im) = "-"
           /\ fd.w > 0 /\ fd.v \in 1..31
           /\ At(key, id) = "_"
           /\ fH.w > 0 /\ fH.v \in 0..23
           /\ At(key, iH) = "-"
           /\ fM.w > 0 /\ fM.v \in 0..59
           /\ At(key, iM) = "-"
           /\ fS.w > 0 /\ fS.v \in 0..59
           /\ At(key, iS) = "." /\ At(key, iS + 1) = "g" /\ At(key, iS + 2) = "z"
           /\ Len(key) = iS + 2
        THEN LET Y == 1000 * DigitVal(key[p + 1]) + 100 * DigitVal(key[p + 2])
                      + 10 * DigitVal(key[p + 3]) + DigitVal(key[p + 4])
             IN  IF Y >= 1 /\ fd.v <= DaysInMonth(Y, fm.v)
                 THEN DT(Y, fm.v, fd.v, fH.v, fM.v, fS.v)
                 ELSE NotMatched
        ELSE NotMatched

(***************************************************************************)
(* Regular expressions.  A pattern is a sequence of tokens: "." matches    *)
(* any character, "\\d" a digit, any other token the character itself.     *)
(* A directory name is put into the pattern text as it is, so a "." in it  *)
(* is the wildcard.                                                        *)
(***************************************************************************)
TokMatch(tok, c) ==
    IF tok = "." THEN c # ""
    ELSE IF tok = "\\d" THEN IsDigit(c)
    ELSE tok = c

\* the pattern matches s at position i
MatchAt(pattern, s, i) ==
    \A k \in 1..Len(pattern) : TokMatch(pattern[k], At(s, i + k - 1))

\* re.match(pattern, s): anchored at the start of s only
ReMatch(pattern, s) == MatchAt(pattern, s, 1)

\* re.sub(pattern, repl, s): every non-overlapping match, left to right
RECURSIVE ReSubFrom(_, _, _, _)
ReSubFrom(pattern, repl, s, i) ==
    IF i > Len(s) THEN << >>
    ELSE IF Len(pattern) > 0 /\ MatchAt(pattern, s, i)
         THEN repl \o ReSubFrom(pattern, repl, s, i + Len(pattern))
         ELSE << s[i] >> \o ReSubFrom(pattern, repl, s, i + 1)

ReSub(pattern, repl, s) == ReSubFrom(pattern, repl, s, 1)

D2 == << "\\d", "\\d" >>

TimePattern == << "_" >> \o D2 \o << "-" >> \o D2 \o << "-" >> \o D2
               \o << ".", "g", "z" >>

\* the pattern get_backup_from_this_period builds for dir_name, mode and now
PeriodPattern(dir_name, mode, t) ==
    IF mode = "daily"
    THEN dir_name \o Pad4(t.Y) \o << "-" >> \o Pad2(t.m) \o << "-" >>
         \o Pad2(t.d) \o TimePattern
    ELSE dir_name \o Pad4(t.Y) \o << "-" >> \o Pad2(t.m) \o << "-" >>
         \o D2 \o TimePattern

(***************************************************************************)
(* The bucket, the clock and the command lines.                            *)
(***************************************************************************)
None == << >>

\* the instants datetime.utcnow() can return, in order
Clock == << DT(2024, 3, 1, 10, 0, 0), DT(2024, 3, 2, 10, 0, 0) >>

SrcDir == << "s", "/" >>
DstDir == << "d", "/" >>

\* the keys an object of the bucket can have before the first run
Universe ==
    { SrcDir \o BACKUP_FILENAME_FORMAT(DT(2024, 3, 1, 2, 0, 0)),
      SrcDir \o BACKUP_FILENAME_FORMAT(DT(2024, 2, 28, 23, 59, 59)),
      SrcDir \o BACKUP_FILENAME_FORMAT(DT(2024, 3, 1, 3, 0, 0)) \o SrcDir,
      SrcDir \o << "2", "0", "2", "4", "-", "0", "3", "-", "0", "1", "_",
                   "0", "4", "-", "0", "0", "-", "0", "0", "x", "g", "z" >>,
      DstDir \o BACKUP_FILENAME_FORMAT(DT(2024, 3, 1, 0, 30, 0)),
      DstDir \o BACKUP_FILENAME_FORMAT(DT(2024, 2, 27, 1, 0, 0)),
      DstDir \o BACKUP_FILENAME_FORMAT(DT(2024, 4, 1, 0, 0, 0)),
      DstDir \o << "2", "0", "2", "4", "-", "3", "-", "1", "_",
                   "2", "-", "0", "-", "0", ".", "g", "z" >>,
      DstDir \o << "n", "o", "t", "e", "s", ".", "t", "x", "t" >> }

SourceArgs     == { << "s" >> }
DestArgs       == { << "d" >> }
BackupPrefixes == { << "s" >>, << "s", "/" >> }
Modes          == { "daily", "monthly" }
Runs           == 1..MaxProcs

VARIABLES
    store,            \* the bucket: key |-> content
    now,              \* index into Clock of the current instant
    mode,             \* args.mode
    max_backups,      \* args.max_backups
    source_arg,       \* args.source_dir
    dest_arg,         \* args.dest_dir
    archived,         \* history: the clock indexes of the archive runs that
                      \* copied a backup and ended normally, since the last
                      \* run of another script
    pc,               \* where each run is
    kind,             \* "archive", "upload" or "prune"
    backup_prefix,    \* args.backup_prefix of an upload run
    before,           \* the bucket when the run started
    t_dest,           \* clock index of the destination check (0: not made)
    t_source,         \* clock index of the source check (0: not made)
    dest_match,       \* what the destination check returned
    backup_file,      \* what the source check returned / the uploaded file
    dest_filename,    \* the key the run wrote
    all_backups,      \* remove_old_backups: the sorted Backup records
    removed_backups,  \* remove_old_backups: the records to delete
    ndel,             \* how many of them have been deleted
    failed,           \* the key whose delete raised
    outcome           \* how the run ended

cfg  == << mode, max_backups, source_arg, dest_arg >>
loc  == << kind, backup_prefix, before, t_dest, t_source, dest_match,
           backup_file, dest_filename, all_backups, removed_backups, ndel,
           failed, outcome >>
vars == << store, now, cfg, archived, pc, loc >>

\* the listing of the keys that start with prefix, in the order S3 gives
RECURSIVE InsertKey(_, _)
InsertKey(k, sorted) ==
    IF sorted = << >> THEN << k >>
    ELSE IF LexLess(k, Head(sorted)) THEN << k >> \o sorted
    ELSE << Head(sorted) >> \o InsertKey(k, Tail(sorted))

RECURSIVE SortKeys(_)
SortKeys(S) ==
    IF S = {} THEN << >>
    ELSE LET k == CHOOSE x \in S : TRUE
         IN  InsertKey(k, SortKeys(S \ {k}))

BucketList(st, prefix) ==
    SortKeys({ k \in DOMAIN st : StartsWith(k, prefix) })

\* FirstMatch with a fault: the last key of the listing the pattern matches
RECURSIVE LastMatch(_, _)
LastMatch(listing, pattern) ==
    IF listing = << >> THEN None
    ELSE IF ReMatch(pattern, listing[Len(listing)]) THEN listing[Len(listing)]
    ELSE LastMatch(SubSeq(listing, 1, Len(listing) - 1), pattern)

\* the first key of the listing the pattern matches, or None
RECURSIVE FirstMatch(_, _)
FirstMatch(listing, pattern) ==
    IF listing = << >> THEN None
    ELSE IF ReMatch(pattern, Head(listing)) THEN Head(listing)
    ELSE FirstMatch(Tail(listing), pattern)

\* get_backup_from_this_period with a fault: the daily pattern in every mode
get_backup_from_this_day(st, dir_name, md, t) ==
    FirstMatch(BucketList(st, dir_name), PeriodPattern(dir_name, "daily", t))

get_backup_from_this_period(st, dir_name, md, t) ==
    FirstMatch(BucketList(st, dir_name), PeriodPattern(dir_name, md, t))

\* ParseAll with a fault: a key that does not parse is kept, with the oldest date
RECURSIVE ParseAllLenient(_, _)
ParseAllLenient(listing, fmtPrefix) ==
    IF listing = << >> THEN << >>
    ELSE LET d == StrpTime(Head(listing), fmtPrefix)
         IN  << [key |-> Head(listing),
                 date |-> IF d = NotMatched THEN DT(1, 1, 1, 0, 0, 0) ELSE d] >>
             \o ParseAllLenient(Tail(listing), fmtPrefix)

\* the Backup records of a listing: the keys strptime accepts
RECURSIVE ParseAll(_, _)
ParseAll(listing, fmtPrefix) ==
    IF listing = << >> THEN << >>
    ELSE LET d == StrpTime(Head(listing), fmtPrefix)
         IN  IF d = NotMatched THEN ParseAll(Tail(listing), fmtPrefix)
             ELSE << [key |-> Head(listing), date |-> d] >>
                  \o ParseAll(Tail(listing), fmtPrefix)

\* list.sort(key=date, reverse=True): stable, most recent first
RECURSIVE InsertDesc(_, _)
InsertDesc(x, sorted) ==
    IF sorted = << >> THEN << x >>
    ELSE IF DateLess(x.date, Head(sorted).date)
         THEN << Head(sorted) >> \o InsertDesc(x, Tail(sorted))
         ELSE << x >> \o sorted

RECURSIVE SortDesc(_)
SortDesc(s) ==
    IF s = << >> THEN << >> ELSE InsertDesc(Head(s), SortDesc(Tail(s)))

\* SliceFrom with a fault: all_backups[max_backups + 1:]
SliceFromNext(s, n) == IF n + 1 >= Len(s) THEN << >> ELSE SubSeq(s, n + 2, Len(s))

\* all_backups[max_backups:]
SliceFrom(s, n) == IF n >= Len(s) THEN << >> ELSE SubSeq(s, n + 1, Len(s))

\* filename_format of archive-database-backup.remove_old_backups
ArchiveFormatPrefix(prefix) ==
    IF prefix # << >> THEN RStripSlash(prefix) \o << "/" >>
    ELSE << >>

\* filename_format of mongodump-to-s3.remove_old_backups
UploadFormatPrefix(prefix) ==
    IF prefix # << >> THEN prefix \o << "/" >>
    ELSE << >>

source_dir == RStripSlash(source_arg) \o << "/" >>
dest_dir   == RStripSlash(dest_arg) \o << "/" >>

\* the key upload_mongodump_to_s3 writes
UploadKey(prefix, filename) == LStripSlash(PathJoin(prefix, filename))

\* the prefix a run prunes, and the format prefix it parses keys with
PrunePrefix(r) == IF kind[r] = "upload" THEN backup_prefix[r] ELSE dest_dir

FormatPrefix(r) ==
    IF kind[r] = "upload" THEN UploadFormatPrefix(backup_prefix[r])
    ELSE ArchiveFormatPrefix(dest_dir)

\* PruningEnabled with a fault: if args.max_backups >= 0
PruningAlways == max_backups >= 0

\* if args.max_backups > 0
PruningEnabled == max_backups > 0

Init ==
    /\ \E S \in SUBSET Universe :
          /\ Cardinality(S) <= MaxObjects
          /\ store = [k \in S |-> k]
    /\ now = 1
    /\ mode \in Modes
    /\ max_backups \in 0..MaxBackups
    /\ source_arg \in SourceArgs
    /\ dest_arg \in DestArgs
    /\ archived = {}
    /\ pc = [r \in Runs |-> "idle"]
    /\ kind = [r \in Runs |-> "none"]
    /\ backup_prefix = [r \in Runs |-> None]
    /\ before = [r \in Runs |-> << >>]
    /\ t_dest = [r \in Runs |-> 0]
    /\ t_source = [r \in Runs |-> 0]
    /\ dest_match = [r \in Runs |-> None]
    /\ backup_file = [r \in Runs |-> None]
    /\ dest_filename = [r \in Runs |-> None]
    /\ all_backups = [r \in Runs |-> << >>]
    /\ removed_backups = [r \in Runs |-> << >>]
    /\ ndel = [r \in Runs |-> 0]
    /\ failed = [r \in Runs |-> None]
    /\ outcome = [r \in Runs |-> "running"]

\* the scripts are run one after the other: the next run starts, in the
\* first slot, when the last one has ended
MayStart(r) == r = 1 /\ pc[r] \in {"idle", "done"}

\* a new process: nothing is left of the run before
NewProcess(r, k, prefix, file) ==
    /\ kind' = [kind EXCEPT ![r] = k]
    /\ backup_prefix' = [backup_prefix EXCEPT ![r] = prefix]
    /\ backup_file' = [backup_file EXCEPT ![r] = file]
    /\ before' = [before EXCEPT ![r] = store]
    /\ t_dest' = [t_dest EXCEPT ![r] = 0]
    /\ t_source' = [t_source EXCEPT ![r] = 0]
    /\ dest_match' = [dest_match EXCEPT ![r] = None]
    /\ dest_filename' = [dest_filename EXCEPT ![r] = None]
    /\ all_backups' = [all_backups EXCEPT ![r] = << >>]
    /\ removed_backups' = [removed_backups EXCEPT ![r] = << >>]
    /\ ndel' = [ndel EXCEPT ![r] = 0]
    /\ failed' = [failed EXCEPT ![r] = None]
    /\ outcome' = [outcome EXCEPT ![r] = "running"]

\* the clock advances; a run sees it only where it calls utcnow()
Tick ==
    /\ now < Len(Clock)
    /\ \E r \in Runs : MayStart(r) \/ pc[r] \in {"check_dest", "check_source"}
    /\ now' = now + 1
    /\ UNCHANGED << store, cfg, archived, pc, loc >>

\* archive-database-backup.main up to the connection to the bucket
StartArchive(r) ==
    /\ MayStart(r)
    /\ pc' = [pc EXCEPT ![r] = "check_dest"]
    /\ NewProcess(r, "archive", None, None)
    /\ UNCHANGED << store, now, cfg, archived >>

\* main: is there a backup of this period in the destination directory
CheckDest(r) ==
    /\ pc[r] = "check_dest"
    /\ LET f == get_backup_from_this_period(store, dest_dir, mode, Clock[now])
       IN  /\ dest_match' = [dest_match EXCEPT ![r] = f]
           /\ t_dest' = [t_dest EXCEPT ![r] = now]
           /\ IF f # None
              THEN /\ pc' = [pc EXCEPT ![r] = "done"]
                   /\ outcome' = [outcome EXCEPT ![r] = "AlreadyArchived"]
              ELSE /\ pc' = [pc EXCEPT ![r] = "check_source"]
                   /\ UNCHANGED outcome
    /\ UNCHANGED << store, now, cfg, archived, kind, backup_prefix, before,
                    t_source, backup_file, dest_filename, all_backups,
                    removed_backups, ndel, failed >>

\* main: is there a backup of this period in the source directory
CheckSource(r) ==
    /\ pc[r] = "check_source"
    /\ LET f == get_backup_from_this_period(store, source_dir, mode, Clock[now])
       IN  /\ backup_file' = [backup_file EXCEPT ![r] = f]
           /\ t_source' = [t_source EXCEPT ![r] = now]
           /\ IF f = None
              THEN /\ pc' = [pc EXCEPT ![r] = "done"]
                   /\ outcome' = [outcome EXCEPT ![r] = "NoSourceBackup"]
              ELSE /\ pc' = [pc EXCEPT ![r] = "copy"]
                   /\ UNCHANGED outcome
    /\ UNCHANGED << store, now, cfg, archived, kind, backup_prefix, before,
                    t_dest, dest_match, dest_filename, all_backups,
                    removed_backups, ndel, failed >>

\* DestFilename with a fault: the substitution leaves the name as it is
DestFilenameKept(src, dst, name) == name

\* dest_filename = re.sub(source_dir, dest_dir, backup_file.name)
DestFilename(src, dst, name) == ReSub(src, dst, name)

\* history: an archive run that copied a backup ends normally
Archived(r) ==
    IF t_dest[r] = t_source[r] THEN archived \cup {t_source[r]} ELSE archived

\* Copy with a fault: the destination is looked at again, and a backup of the
\* period that is there by now ends the run without a copy
CopyIfAbsent(r) ==
    /\ pc[r] = "copy"
    /\ LET dst == DestFilename(source_dir, dest_dir, backup_file[r])
           f   == get_backup_from_this_period(store, dest_dir, mode, Clock[now])
       IN  IF f # None
           THEN /\ pc' = [pc EXCEPT ![r] = "done"]
                /\ outcome' = [outcome EXCEPT ![r] = "AlreadyArchived"]
                /\ UNCHANGED << store, dest_filename, archived >>
           ELSE IF backup_file[r] \in DOMAIN store
           THEN /\ dest_filename' = [dest_filename EXCEPT ![r] = dst]
                /\ store' = [k \in DOMAIN store \cup {dst} |->
                               IF k = dst THEN store[backup_file[r]] ELSE store[k]]
                /\ IF PruningEnabled
                   THEN /\ pc' = [pc EXCEPT ![r] = "list"]
                        /\ UNCHANGED << outcome, archived >>
                   ELSE /\ pc' = [pc EXCEPT ![r] = "done"]
                        /\ outcome' = [outcome EXCEPT ![r] = "Copied"]
                        /\ archived' = Archived(r)
           ELSE /\ pc' = [pc EXCEPT ![r] = "done"]
                /\ outcome' = [outcome EXCEPT ![r] = "Crashed"]
                /\ UNCHANGED << store, dest_filename, archived >>
    /\ UNCHANGED << now, cfg, kind, backup_prefix, before, t_dest, t_source,
                    dest_match, backup_file, all_backups, removed_backups, ndel,
                    failed >>

\* main: copy the backup to the destination directory, then test max_backups
Copy(r) ==
    /\ pc[r] = "copy"
    /\ LET dst == DestFilename(source_dir, dest_dir, backup_file[r])
       IN  IF backup_file[r] \in DOMAIN store
           THEN /\ dest_filename' = [dest_filename EXCEPT ![r] = dst]
                /\ store' = [k \in DOMAIN store \cup {dst} |->
                               IF k = dst THEN store[backup_file[r]] ELSE store[k]]
                /\ IF PruningEnabled
                   THEN /\ pc' = [pc EXCEPT ![r] = "list"]
                        /\ UNCHANGED << outcome, archived >>
                   ELSE /\ pc' = [pc EXCEPT ![r] = "done"]
                        /\ outcome' = [outcome EXCEPT ![r] = "Copied"]
                        /\ archived' = Archived(r)
           ELSE /\ pc' = [pc EXCEPT ![r] = "done"]
                /\ outcome' = [outcome EXCEPT ![r] = "Crashed"]
                /\ UNCHANGED << store, dest_filename, archived >>
    /\ UNCHANGED << now, cfg, kind, backup_prefix, before, t_dest, t_source,
                    dest_match, backup_file, all_backups, removed_backups, ndel,
                    failed >>

\* mongodump-to-s3.main up to gzip_mongodump, which names the file after now
StartUpload(r) ==
    /\ MayStart(r)
    /\ pc' = [pc EXCEPT ![r] = "upload"]
    /\ \E p \in BackupPrefixes :
          NewProcess(r, "upload", p, BACKUP_FILENAME_FORMAT(Clock[now]))
    /\ archived' = {}
    /\ UNCHANGED << store, now, cfg >>

\* upload_mongodump_to_s3, then main's test of max_backups
Upload(r) ==
    /\ pc[r] = "upload"
    /\ LET k == UploadKey(backup_prefix[r], backup_file[r])
       IN  /\ dest_filename' = [dest_filename EXCEPT ![r] = k]
           /\ store' = [x \in DOMAIN store \cup {k} |->
                          IF x = k THEN << "dump" >> \o k ELSE store[x]]
    /\ IF PruningEnabled
       THEN /\ pc' = [pc EXCEPT ![r] = "list"]
            /\ UNCHANGED outcome
       ELSE /\ pc' = [pc EXCEPT ![r] = "done"]
            /\ outcome' = [outcome EXCEPT ![r] = "Uploaded"]
    /\ UNCHANGED << now, cfg, archived, kind, backup_prefix, before, t_dest,
                    t_source, dest_match, backup_file, all_backups,
                    removed_backups, ndel, failed >>

\* remove_old_backups of archive-database-backup called on its own, on the
\* destination directory, with max_backups as it is
StartPrune(r) ==
    /\ MayStart(r)
    /\ pc' = [pc EXCEPT ![r] = "list"]
    /\ NewProcess(r, "prune", None, None)
    /\ archived' = {}
    /\ UNCHANGED << store, now, cfg >>

\* remove_old_backups up to the slice: list, parse, sort, keep max_backups
ListBackups(r) ==
    /\ pc[r] = "list"
    /\ LET all == SortDesc(ParseAll(BucketList(store, PrunePrefix(r)),
                                    FormatPrefix(r)))
       IN  /\ all_backups' = [all_backups EXCEPT ![r] = all]
           /\ removed_backups' = [removed_backups EXCEPT ![r] =
                                     SliceFrom(all, max_backups)]
    /\ pc' = [pc EXCEPT ![r] = "delete"]
    /\ UNCHANGED << store, now, cfg, archived, kind, backup_prefix, before,
                    t_dest, t_source, dest_match, backup_file, dest_filename,
                    ndel, failed, outcome >>

\* bucket.delete_key(backup.key) for the next record of removed_backups
DeleteKey(r) ==
    /\ pc[r] = "delete"
    /\ ndel[r] < Len(removed_backups[r])
    /\ LET k == removed_backups[r][ndel[r] + 1].key
       IN  store' = [x \in DOMAIN store \ {k} |-> store[x]]
    /\ ndel' = [ndel EXCEPT ![r] = @ + 1]
    /\ UNCHANGED << now, cfg, archived, pc, kind, backup_prefix, before, t_dest,
                    t_source, dest_match, backup_file, dest_filename,
                    all_backups, removed_backups, failed, outcome >>

\* bucket.delete_key raises: nothing catches it, the script dies
DeleteKeyRaises(r) ==
    /\ pc[r] = "delete"
    /\ ndel[r] < Len(removed_backups[r])
    /\ failed' = [failed EXCEPT ![r] = removed_backups[r][ndel[r] + 1].key]
    /\ pc' = [pc EXCEPT ![r] = "done"]
    /\ outcome' = [outcome EXCEPT ![r] = "Crashed"]
    /\ UNCHANGED << store, now, cfg, archived, kind, backup_prefix, before,
                    t_dest, t_source, dest_match, backup_file, dest_filename,
                    all_backups, removed_backups, ndel >>

\* remove_old_backups returns removed_backups, main returns 0
Return(r) ==
    /\ pc[r] = "delete"
    /\ ndel[r] = Len(removed_backups[r])
    /\ pc' = [pc EXCEPT ![r] = "done"]
    /\ outcome' = [outcome EXCEPT ![r] = "Pruned"]
    /\ archived' = IF kind[r] = "archive" THEN Archived(r) ELSE archived
    /\ UNCHANGED << store, now, cfg, kind, backup_prefix, before, t_dest,
                    t_source, dest_match, backup_file, dest_filename,
                    all_backups, removed_backups, ndel, failed >>

Next ==
    \/ Tick
    \/ \E r \in Runs : StartArchive(r)
    \/ \E r \in Runs : CheckDest(r)
    \/ \E r \in Runs : CheckSource(r)
    \/ \E r \in Runs : Copy(r)
    \/ \E r \in Runs : StartUpload(r)
    \/ \E r \in Runs : Upload(r)
    \/ \E r \in Runs : StartPrune(r)
    \/ \E r \in Runs : ListBackups(r)
    \/ \E r \in Runs : DeleteKey(r)
    \/ \E r \in Runs : DeleteKeyRaises(r)
    \/ \E r \in Runs : Return(r)

Spec == Init /\ [][Next]_vars

(***************************************************************************)
(* Two archive runs started side by side: each of the two slots holds one  *)
(* process of archive-database-backup.py, and their steps interleave on    *)
(* the bucket.                                                             *)
(***************************************************************************)
Racers == { r \in Runs : r <= 2 }

ConcStartArchive(r) ==
    /\ pc[r] = "idle"
    /\ pc' = [pc EXCEPT ![r] = "check_dest"]
    /\ NewProcess(r, "archive", None, None)
    /\ UNCHANGED << store, now, cfg, archived >>

ConcTick ==
    /\ now < Len(Clock)
    /\ \E r \in Racers : pc[r] \in {"idle", "check_dest", "check_source"}
    /\ now' = now + 1
    /\ UNCHANGED << store, cfg, archived, pc, loc >>

ConcNext ==
    \/ ConcTick
    \/ \E r \in Racers : ConcStartArchive(r)
    \/ \E r \in Racers : CheckDest(r)
    \/ \E r \in Racers : CheckSource(r)
    \/ \E r \in Racers : Copy(r)
    \/ \E r \in Racers : ListBackups(r)
    \/ \E r \in Racers : DeleteKey(r)
    \/ \E r \in Racers : DeleteKeyRaises(r)
    \/ \E r \in Racers : Return(r)

ConcSpec == Init /\ [][ConcNext]_vars

(***************************************************************************)
(* Archive runs, one after the other, for source and destination           *)
(* directories that may be equal or lie one inside the other.              *)
(***************************************************************************)
PrefixSourceArgs == { << "s" >>, << "s", "/", "d" >> }
PrefixDestArgs   == { << "s" >>, << "s", "/", "d" >>, << "d" >> }

PrefixUniverse ==
    { << "s", "/" >> \o BACKUP_FILENAME_FORMAT(DT(2024, 3, 1, 2, 0, 0)),
      << "s", "/" >> \o BACKUP_FILENAME_FORMAT(DT(2024, 3, 2, 2, 0, 0)),
      << "s", "/" >> \o BACKUP_FILENAME_FORMAT(DT(2024, 2, 27, 1, 0, 0)),
      << "s", "/", "d", "/" >> \o BACKUP_FILENAME_FORMAT(DT(2024, 3, 1, 3, 0, 0)),
      << "s", "/", "d", "/" >> \o BACKUP_FILENAME_FORMAT(DT(2024, 2, 26, 1, 0, 0)),
      << "d", "/" >> \o BACKUP_FILENAME_FORMAT(DT(2024, 2, 25, 1, 0, 0)),
      << "d", "/" >> \o BACKUP_FILENAME_FORMAT(DT(2024, 4, 1, 0, 0, 0)) }

PrefixInit ==
    /\ \E S \in SUBSET PrefixUniverse :
          /\ Cardinality(S) <= MaxObjects
          /\ store = [k \in S |-> k]
    /\ now = 1
    /\ mode \in Modes
    /\ max_backups \in 0..MaxBackups
    /\ source_arg \in PrefixSourceArgs
    /\ dest_arg \in PrefixDestArgs
    /\ archived = {}
    /\ pc = [r \in Runs |-> "idle"]
    /\ kind = [r \in Runs |-> "none"]
    /\ backup_prefix = [r \in Runs |-> None]
    /\ before = [r \in Runs |-> << >>]
    /\ t_dest = [r \in Runs |-> 0]
    /\ t_source = [r \in Runs |-> 0]
    /\ dest_match = [r \in Runs |-> None]
    /\ backup_file = [r \in Runs |-> None]
    /\ dest_filename = [r \in Runs |-> None]
    /\ all_backups = [r \in Runs |-> << >>]
    /\ removed_backups = [r \in Runs |-> << >>]
    /\ ndel = [r \in Runs |-> 0]
    /\ failed = [r \in Runs |-> None]
    /\ outcome = [r \in Runs |-> "running"]

PrefixNext ==
    \/ Tick
    \/ \E r \in Runs : StartArchive(r)
    \/ \E r \in Runs : CheckDest(r)
    \/ \E r \in Runs : CheckSource(r)
    \/ \E r \in Runs : Copy(r)
    \/ \E r \in Runs : ListBackups(r)
    \/ \E r \in Runs : DeleteKey(r)
    \/ \E r \in Runs : DeleteKeyRaises(r)
    \/ \E r \in Runs : Return(r)

PrefixSpec == PrefixInit /\ [][PrefixNext]_vars

\* ExitStatus with a fault: main returns 0 where it gives up
ExitStatusZero(r) == IF outcome[r] = "Crashed" THEN 1 ELSE 0

\* the exit status of a finished run
ExitStatus(r) ==
    IF outcome[r] \in {"NoSourceBackup", "Crashed"} THEN 1 ELSE 0

(***************************************************************************)
(* Notions the properties are stated with.                                 *)
(***************************************************************************)
Min(a, b) == IF a < b THEN a ELSE b

\* the run has called remove_old_backups and has its listing
Listed(r) ==
    \/ pc[r] = "delete"
    \/ pc[r] = "done" /\ (outcome[r] = "Pruned" \/ failed[r] # None)

\* the keys of the bucket when the run listed it: runs follow one another,
\* so these are the keys it started with and the key it wrote
AtListing(r) ==
    DOMAIN before[r] \cup (IF dest_filename[r] # None THEN {dest_filename[r]} ELSE {})

\* k is a Backup Record of the run's pruner: it is under the pruned prefix and
\* its key parses with the prefix-qualified name format
Parsable(r, k) ==
    StartsWith(k, PrunePrefix(r)) /\ StrpTime(k, FormatPrefix(r)) # NotMatched

RecordsAtListing(r) == { k \in AtListing(r) : Parsable(r, k) }

RecordsLeft(r) == { k \in DOMAIN store : Parsable(r, k) }

DateOf(r, k) == StrpTime(k, FormatPrefix(r))

\* the keys under dir_name that the pattern of instant t matches
PeriodMatches(st, dir_name, t) ==
    { k \in DOMAIN st : StartsWith(k, dir_name)
                        /\ ReMatch(PeriodPattern(dir_name, mode, t), k) }

SamePeriod(a, b) ==
    a.Y = b.Y /\ a.m = b.m /\ (mode = "daily" => a.d = b.d)

\* k is dir_name followed by a name YYYY-MM-DD_hh-mm-ss.gz of the period of t
ExactPeriodName(k, dir_name, t) ==
    LET n == Len(dir_name)
        name == SubSeq(k, n + 1, Len(k))
    IN  /\ StartsWith(k, dir_name)
        /\ Len(name) = 22
        /\ \A i \in {1, 2, 3, 4, 6, 7, 9, 10, 12, 13, 15, 16, 18, 19} :
               IsDigit(name[i])
        /\ name[5] = "-" /\ name[8] = "-" /\ name[11] = "_"
        /\ name[14] = "-" /\ name[17] = "-"
        /\ name[20] = "." /\ name[21] = "g" /\ name[22] = "z"
        /\ SubSeq(name, 1, 4) = Pad4(t.Y)
        /\ SubSeq(name, 6, 7) = Pad2(t.m)
        /\ (mode = "daily" => SubSeq(name, 9, 10) = Pad2(t.d))

\* f is what a scan of the listing of st in order returns for the period of t
IsFirstMatch(f, st, dir_name, t) ==
    LET M == PeriodMatches(st, dir_name, t)
    IN  IF M = {} THEN f = None
        ELSE f \in M /\ \A k \in M \ {f} : LexLess(f, k)

\* the name format qualified with a prefix as the specification words it: the
\* prefix without its trailing separators, then one separator
QualifiedFormatPrefix(prefix) == RStripSlash(prefix) \o << "/" >>

\* k is a timestamp-named backup under prefix
IsBackupRecord(k, prefix) ==
    StartsWith(k, prefix) /\ StrpTime(k, QualifiedFormatPrefix(prefix)) # NotMatched

\* the run has called remove_old_backups only after it wrote its copy
PruneFollowsCopy(r) ==
    \/ pc[r] \in {"list", "delete"}
    \/ all_backups[r] # << >>
    \/ ndel[r] > 0
    \/ failed[r] # None
    \/ outcome[r] = "Pruned"
    => dest_filename[r] # None /\ t_source[r] > 0

\* the keys the run deletes are Backup Records of the destination directory
DeletesDestRecords(r) ==
    /\ \A i \in 1..Len(removed_backups[r]) :
           IsBackupRecord(removed_backups[r][i].key, dest_dir)
    /\ \A k \in DOMAIN before[r] \ DOMAIN store : IsBackupRecord(k, dest_dir)
    /\ failed[r] # None => IsBackupRecord(failed[r], dest_dir)

\* every object the source directory had when the run started is there with
\* its content, and the key the run wrote was not one of them
SourceUntouched(r) ==
    /\ \A k \in DOMAIN before[r] :
           StartsWith(k, source_dir) => k \in DOMAIN store /\ store[k] = before[r][k]
    /\ dest_filename[r] # None =>
           ~(StartsWith(dest_filename[r], source_dir)
             /\ dest_filename[r] \in DOMAIN before[r])

(***************************************************************************)
(* C1: retention bound.  When remove_old_backups(K) has completed, the     *)
(* number of Backup Records left under the prefix is min(K, number before),*)
(* and no record that was deleted is more recent than a record that was    *)
(* kept.                                                                   *)
(***************************************************************************)
RetentionBound ==
    \A r \in Runs :
        pc[r] = "done" /\ outcome[r] = "Pruned" =>
            LET listed  == RecordsAtListing(r)
                left    == RecordsLeft(r)
                deleted == listed \ left
            IN  /\ Cardinality(left) = Min(max_backups, Cardinality(listed))
                /\ left \subseteq listed
                /\ deleted # {} =>
                       \A k \in left : \A d \in deleted :
                           ~DateLess(DateOf(r, k), DateOf(r, d))

\* a pruning that kept some records and deleted others
RetentionBoundWitness ==
    \E r \in Runs :
        /\ pc[r] = "done" /\ outcome[r] = "Pruned"
        /\ max_backups = 2
        /\ Cardinality(RecordsLeft(r)) = 2
        /\ Cardinality(RecordsAtListing(r)) > 2

(***************************************************************************)
(* C2: deletion selection.  A key that does not parse with the             *)
(* prefix-qualified name format is never in removed_backups, is never      *)
(* deleted, and is not counted: the records counted against max_backups    *)
(* are exactly the keys that parse.                                        *)
(***************************************************************************)
UnparsableNeverDeleted ==
    \A r \in Runs :
        Listed(r) =>
            LET listed == RecordsAtListing(r)
            IN  /\ \A i \in 1..Len(removed_backups[r]) :
                       removed_backups[r][i].key \in listed
                /\ (AtListing(r) \ listed) \subseteq DOMAIN store
                /\ Len(all_backups[r]) = Cardinality(listed)
                /\ Len(removed_backups[r])
                     = Len(all_backups[r]) - Min(max_backups, Len(all_backups[r]))

\* a pruning that deleted records while a key that does not parse was listed
UnparsableNeverDeletedWitness ==
    \E r \in Runs :
        /\ pc[r] = "done" /\ outcome[r] = "Pruned"
        /\ ndel[r] > 0
        /\ \E k \in AtListing(r) : StartsWith(k, PrunePrefix(r)) /\ ~Parsable(r, k)

(***************************************************************************)
(* C3: already archived.  When the destination directory holds a key the   *)
(* period pattern matches, the archive run ends with status 0 and has not  *)
(* queried the source, copied or deleted anything: the bucket is as it     *)
(* was, whatever max_backups is.                                           *)
(***************************************************************************)
AlreadyArchivedNoOp ==
    \A r \in Runs :
        /\ kind[r] = "archive"
        /\ t_dest[r] > 0
        /\ PeriodMatches(before[r], dest_dir, Clock[t_dest[r]]) # {}
        => /\ pc[r] = "done"
           /\ outcome[r] = "AlreadyArchived"
           /\ ExitStatus(r) = 0
           /\ t_source[r] = 0
           /\ backup_file[r] = None
           /\ dest_filename[r] = None
           /\ all_backups[r] = << >> /\ removed_backups[r] = << >>
           /\ ndel[r] = 0 /\ failed[r] = None
           /\ store = before[r]

\* an already archived period, with pruning asked for and a source backup
AlreadyArchivedNoOpWitness ==
    \E r \in Runs :
        /\ kind[r] = "archive" /\ pc[r] = "done"
        /\ outcome[r] = "AlreadyArchived"
        /\ max_backups > 0
        /\ PeriodMatches(before[r], source_dir, Clock[t_dest[r]]) # {}
        /\ Cardinality(PeriodMatches(before[r], dest_dir, Clock[t_dest[r]])) = 1

(***************************************************************************)
(* C4: no source backup.  When neither the destination nor the source      *)
(* directory holds a key of the period, the archive run ends with a        *)
(* failure status, which is not the status of the already-archived         *)
(* outcome, and has copied and deleted nothing: the bucket is as it was.   *)
(***************************************************************************)
NoSourceBackupFails ==
    \A r \in Runs :
        /\ kind[r] = "archive"
        /\ t_source[r] > 0
        /\ PeriodMatches(before[r], dest_dir, Clock[t_dest[r]]) = {}
        /\ PeriodMatches(before[r], source_dir, Clock[t_source[r]]) = {}
        => /\ pc[r] = "done"
           /\ outcome[r] = "NoSourceBackup"
           /\ ExitStatus(r) # 0
           /\ \A q \in Runs :
                  outcome[q] = "AlreadyArchived" => ExitStatus(q) # ExitStatus(r)
           /\ backup_file[r] = None
           /\ dest_filename[r] = None
           /\ all_backups[r] = << >> /\ removed_backups[r] = << >>
           /\ ndel[r] = 0 /\ failed[r] = None
           /\ store = before[r]

\* the source directory has a backup, but of another period
NoSourceBackupFailsWitness ==
    \E r \in Runs :
        /\ kind[r] = "archive" /\ pc[r] = "done"
        /\ outcome[r] = "NoSourceBackup"
        /\ max_backups > 0
        /\ \E k \in DOMAIN store : StartsWith(k, source_dir)

(***************************************************************************)
(* C5: at most one copy per period.  Once an archive run has copied a      *)
(* backup and ended normally, a later archive run in the same period finds *)
(* the period archived: it does not get past the destination check.        *)
(***************************************************************************)
AtMostOncePerPeriod ==
    \A r \in Runs :
        kind[r] = "archive" /\ pc[r] \in {"check_source", "copy", "list", "delete"}
        => \A t \in archived : ~SamePeriod(Clock[t], Clock[t_dest[r]])

(***************************************************************************)
(* C6: destination key.  The key a backup is copied to is the matched      *)
(* source key with its leading source directory replaced by the            *)
(* destination directory, and the rest of the key as it was.               *)
(***************************************************************************)
LeadingPrefixOnly ==
    \A r \in Runs :
        kind[r] = "archive" /\ dest_filename[r] # None
        => dest_filename[r]
             = dest_dir \o SubSeq(backup_file[r], Len(source_dir) + 1,
                                  Len(backup_file[r]))

(***************************************************************************)
(* C7: anchored pattern.  The key get_backup_from_this_period returns is   *)
(* exactly the directory followed by a name YYYY-MM-DD_hh-mm-ss.gz with    *)
(* the year and month (in daily mode the day too) of now: nothing follows  *)
(* the .gz and the character before gz is a dot.                           *)
(***************************************************************************)
AnchoredPattern ==
    \A r \in Runs :
        kind[r] = "archive" =>
            /\ dest_match[r] # None
                 => ExactPeriodName(dest_match[r], dest_dir, Clock[t_dest[r]])
            /\ backup_file[r] # None
                 => ExactPeriodName(backup_file[r], source_dir, Clock[t_source[r]])

(***************************************************************************)
(* C8: best-effort deletion.  When the delete of one key fails, the delete *)
(* of every other key of removed_backups is still attempted.               *)
(***************************************************************************)
BestEffortDeletion ==
    \A r \in Runs :
        kind[r] \in {"archive", "upload"} /\ pc[r] = "done" /\ failed[r] # None
        => ndel[r] + 1 = Len(removed_backups[r])

(***************************************************************************)
(* C9: pruning disabled.  With max_backups = 0 an archive run and an       *)
(* upload run never call remove_old_backups: they delete nothing and every *)
(* key the bucket had when the run started is still there.                 *)
(***************************************************************************)
PruningDisabledAtZero ==
    \A r \in Runs :
        kind[r] \in {"archive", "upload"} /\ max_backups = 0
        => /\ pc[r] \notin {"list", "delete"}
           /\ all_backups[r] = << >> /\ removed_backups[r] = << >>
           /\ ndel[r] = 0 /\ failed[r] = None
           /\ outcome[r] # "Pruned"
           /\ DOMAIN before[r] \subseteq DOMAIN store

\* a run with max_backups = 0 that wrote a key next to a Backup Record
PruningDisabledAtZeroWitness ==
    \E r \in Runs :
        /\ kind[r] \in {"archive", "upload"} /\ max_backups = 0
        /\ pc[r] = "done" /\ dest_filename[r] # None
        /\ Cardinality(RecordsLeft(r)) >= 2

(***************************************************************************)
(* C10: first match wins.  get_backup_from_this_period returns None        *)
(* exactly when the pattern matches no listed key, and otherwise the       *)
(* matched key that the listing gives before every other matched key.      *)
(***************************************************************************)
FirstMatchWins ==
    \A r \in Runs :
        kind[r] = "archive" =>
            /\ t_dest[r] > 0
                 => IsFirstMatch(dest_match[r], before[r], dest_dir, Clock[t_dest[r]])
            /\ t_source[r] > 0
                 => IsFirstMatch(backup_file[r], before[r], source_dir,
                                 Clock[t_source[r]])

\* a source check that had several keys of the period to choose from
FirstMatchWinsWitness ==
    \E r \in Runs :
        /\ kind[r] = "archive" /\ t_source[r] > 0
        /\ Cardinality(PeriodMatches(before[r], source_dir, Clock[t_source[r]])) >= 2

(***************************************************************************)
(* C11: check-then-copy race.  With archive runs interleaved on the same   *)
(* bucket, no step holds back a run that has seen no backup of the period  *)
(* in the destination and has found one in the source: whatever the other  *)
(* runs have written since, it goes on to copy (unless the source object   *)
(* is gone) and, when max_backups > 0, to prune.                           *)
(***************************************************************************)
CheckThenCopyRace ==
    \A r \in Runs :
        kind[r] = "archive" /\ backup_file[r] # None /\ pc[r] # "copy" =>
            /\ dest_match[r] = None
            /\ outcome[r] \in {"running", "Copied", "Pruned", "Crashed"}
            /\ dest_filename[r] = None => outcome[r] = "Crashed"
            /\ dest_filename[r] # None =>
                   /\ dest_filename[r]
                        = DestFilename(source_dir, dest_dir, backup_file[r])
                   /\ PruningEnabled => pc[r] = "list" \/ Listed(r)
                   /\ ~PruningEnabled => outcome[r] = "Copied"

\* two runs of the same period that both saw no backup in the destination,
\* both copied and both pruned; neither deleted anything, so each made its
\* check before the other's copy was there
CheckThenCopyRaceWitness ==
    \E r \in Runs : \E q \in Runs \ {r} :
        /\ kind[r] = "archive" /\ kind[q] = "archive"
        /\ t_dest[r] > 0 /\ t_dest[r] = t_dest[q] /\ t_source[r] = t_dest[r]
        /\ t_source[q] = t_dest[q]
        /\ dest_match[r] = None /\ dest_match[q] = None
        /\ dest_filename[r] # None /\ dest_filename[q] # None
        /\ max_backups > 0
        /\ pc[r] = "done" /\ outcome[r] = "Pruned" /\ ndel[r] = 0
        /\ pc[q] = "done" /\ outcome[q] = "Pruned" /\ ndel[q] = 0

(***************************************************************************)
(* C12: prefix qualification.  In both scripts remove_old_backups parses   *)
(* keys with the prefix without its trailing separators joined to the name *)
(* format by one separator; so the key an upload run wrote is among the    *)
(* Backup Records of its pruning, and when an upload run with              *)
(* max_backups = K > 0 has pruned, at most K timestamp-named backups are   *)
(* left under the prefix.                                                  *)
(***************************************************************************)
PrefixQualification ==
    \A r \in Runs :
        kind[r] \in {"archive", "upload"} /\ Listed(r) =>
            /\ FormatPrefix(r) = QualifiedFormatPrefix(PrunePrefix(r))
            /\ kind[r] = "upload" =>
                   /\ \E i \in 1..Len(all_backups[r]) :
                          all_backups[r][i].key = dest_filename[r]
                   /\ pc[r] = "done" /\ outcome[r] = "Pruned" =>
                          Cardinality({ k \in DOMAIN store :
                                          IsBackupRecord(k, backup_prefix[r]) })
                            <= max_backups

(***************************************************************************)
(* C13: matcher and pruner agree.  Every key get_backup_from_this_period   *)
(* returns for a directory is a Backup Record of remove_old_backups for    *)
(* that directory: it parses to a timestamp with the qualified name        *)
(* format.  A key that does not parse is never the period's backup.        *)
(***************************************************************************)
MatcherPrunerAgreement ==
    \A r \in Runs :
        kind[r] = "archive" =>
            /\ dest_match[r] # None =>
                   StrpTime(dest_match[r], ArchiveFormatPrefix(dest_dir)) # NotMatched
            /\ backup_file[r] # None =>
                   StrpTime(backup_file[r], ArchiveFormatPrefix(source_dir))
                     # NotMatched

(***************************************************************************)
(* C14: the source is never pruned and the prune follows the copy, for any *)
(* source and destination directories, equal or one inside the other       *)
(* included.  An archive run deletes only after its copy, only Backup      *)
(* Records of the destination directory, and deletes or overwrites no      *)
(* object of the source directory.                                         *)
(***************************************************************************)
SourceNeverPruned ==
    \A r \in Runs :
        kind[r] = "archive" =>
            /\ PruneFollowsCopy(r)
            /\ DeletesDestRecords(r)
            /\ SourceUntouched(r)

(***************************************************************************)
(* C14 as amended: an archive run deletes only after its copy and only     *)
(* Backup Records of the destination directory; it deletes or overwrites   *)
(* no object of the source directory when the destination directory is     *)
(* neither the source directory nor inside it.                             *)
(***************************************************************************)
SourceNeverPrunedApart ==
    \A r \in Runs :
        kind[r] = "archive" =>
            /\ PruneFollowsCopy(r)
            /\ DeletesDestRecords(r)
            /\ ~StartsWith(dest_dir, source_dir) => SourceUntouched(r)

\* a run that copied and then deleted a record, with the source directory
\* inside the destination directory and a source object listed by the pruner
SourceNeverPrunedApartWitness ==
    \E r \in Runs :
        /\ kind[r] = "archive" /\ pc[r] = "done" /\ outcome[r] = "Pruned"
        /\ ndel[r] > 0
        /\ source_dir # dest_dir /\ StartsWith(source_dir, dest_dir)
        /\ backup_file[r] \in DOMAIN store

====
